---- MODULE Spec2Model ----
(***************************************************************************)
(* A state-machine model of the `ctr images` command handlers of           *)
(* cmd/ctr/commands/images/images.go: label, check, delete and import.     *)
(* Every handler is a straight-line call sequence against the containerd   *)
(* client library; the library is the environment, so each library call    *)
(* is one step whose outcome is chosen nondeterministically and recorded   *)
(* in `calls` (the trace a mock client would record).                      *)
(*                                                                         *)
(* Strings are TLA+ strings, built with \o where the code concatenates or  *)
(* formats; an error value is a sequence of strings (nil is empty).        *)
(***************************************************************************)
EXTENDS Integers, Sequences, FiniteSets, TLC

\* ---------------------------------------------------------------- bounds
MaxArgs   == 3      \* positional arguments of delete
MaxImages == 2      \* images returned by ListImages / Import
MaxDesc   == 2      \* descriptors an image requires
MaxLabels == 2      \* distinct numbered label keys

VARIABLES
    cmd,              \* the subcommand being run
    pc,               \* position of the handler
    flags,            \* parsed flag values (context.Bool / context.String)
    args,             \* context.Args().Slice()
    name,             \* label: image name from ObjectWithLabelArgs
    labels,           \* label: label map from ObjectWithLabelArgs
    client,           \* "none" | "ok" | "failed": result of commands.NewClient
    input,            \* import: "none" | "stdin" | "file" | "closed"
    calls,            \* library calls made so far, in order, with outcome
    stdout,           \* lines written to standard output (fmt.Println/Printf)
    log,              \* entries written through log.G(ctx), with their level
    tw,               \* rows written to the tabwriter
    exitErr,          \* the handler's exitErr variable
    retErr,           \* the error the Action returned (meaningful at "done")
    i,                \* loop index (0-based, as in the code)
    imageList,        \* check: result of client.ListImages
    imgs,             \* import: result of client.Import
    opts,             \* import: the ImportOpt list
    platformMatcher   \* import: the platformMatcher variable

vars == <<cmd, pc, flags, args, name, labels, client, input, calls, stdout, log, tw,
          exitErr, retErr, i, imageList, imgs, opts, platformMatcher>>

\* ---------------------------------------------------------------- errors
\* An error value is a sequence of strings; nil is the empty sequence.
\* fmt.Errorf("<msg> %v: %w", subject, err) prepends the message and subject.
NoErr == << >>

Errorf(msg, subject, err) == <<msg, subject>> \o err

ErrNotFound == <<"not found">>
ErrUnavailable == <<"unavailable">>
ErrInternal == <<"internal">>
ErrClient == <<"NewClient failed">>

\* errdefs.IsNotFound
IsNotFound(err) == err = ErrNotFound

\* `if exitErr == nil { exitErr = ... }`: only the first error is kept.
KeepFirstMutant(old, new) == new
KeepFirst(old, new) == IF old = NoErr THEN new ELSE old

DefaultFlags ==
    [sync |-> FALSE, quiet |-> FALSE, replaceAll |-> FALSE, digests |-> FALSE,
     skipDigestForNamed |-> FALSE, noUnpack |-> FALSE, baseName |-> "",
     indexName |-> "", compressBlobs |-> FALSE, platform |-> "",
     allPlatforms |-> FALSE]

\* All sequences over S of length at most n.
SeqUpTo(S, n) == UNION {[1..k -> S] : k \in 0..n}

\* the part of the state a handler does not use
Idle ==
    /\ name = ""
    /\ labels = << >>
    /\ input = "none"
    /\ tw = << >>
    /\ imageList = << >>
    /\ imgs = << >>
    /\ opts = << >>
    /\ platformMatcher = "nil"

\* commands.NewClient: either a client or an error, which the handler returns.
NewClient(next) ==
    \E ok \in BOOLEAN :
        /\ client' = IF ok THEN "ok" ELSE "failed"
        /\ pc' = IF ok THEN next ELSE "done"
        /\ retErr' = IF ok THEN retErr ELSE ErrClient

\* ================================================================ delete
Refs == {"r1", "r2"}
DeleteOutcomes == {NoErr, ErrNotFound, ErrUnavailable, ErrInternal}

InitDelete ==
    /\ cmd = "delete"
    /\ pc = "newclient"
    /\ \E s \in BOOLEAN : flags = [DefaultFlags EXCEPT !.sync = s]
    /\ args \in SeqUpTo(Refs, MaxArgs)
    /\ client = "none"
    /\ calls = << >>
    /\ stdout = << >>
    /\ log = << >>
    /\ exitErr = NoErr
    /\ retErr = NoErr
    /\ i = 0
    /\ Idle

DeleteNewClient ==
    /\ cmd = "delete" /\ pc = "newclient"
    /\ NewClient("loop")
    /\ UNCHANGED <<log, cmd, flags, args, name, labels, input, calls, stdout, tw,
                   exitErr, i, imageList, imgs, opts, platformMatcher>>

\* `if context.Bool("sync") && i == context.NArg()-1 { opts = append(...) }`
DeleteOptsMutant(sync, idx, nArg) ==
    IF sync THEN <<"SynchronousDelete">> ELSE << >>
DeleteOpts(sync, idx, nArg) ==
    IF sync /\ idx = nArg - 1 THEN <<"SynchronousDelete">> ELSE << >>

\* the exitErr after a Delete call returned err for target
DeleteExitErrMutant(old, target, err) ==
    IF err # NoErr
    THEN KeepFirst(old, Errorf("unable to delete", target, err))
    ELSE old
DeleteExitErr(old, target, err) ==
    IF err # NoErr /\ ~IsNotFound(err)
    THEN KeepFirst(old, Errorf("unable to delete", target, err))
    ELSE old

\* standard output after a Delete call returned err for target
DeletePrintMutant(out, target, err) ==
    IF err = NoErr \/ IsNotFound(err) THEN Append(out, target) ELSE out
DeletePrint(out, target, err) ==
    IF err = NoErr THEN Append(out, target) ELSE out

\* the log after a Delete call returned err for target
DeleteLog(lg, target, err) ==
    IF err = NoErr THEN lg
    ELSE IF ~IsNotFound(err)
    THEN Append(lg, [level |-> "error", msg |-> "unable to delete " \o target,
                     err |-> err])
    ELSE Append(lg, [level |-> "warning", msg |-> target \o ": image not found",
                     err |-> NoErr])

\* one iteration of `for i, target := range context.Args().Slice()`
DeleteStep ==
    /\ cmd = "delete" /\ pc = "loop"
    /\ i < Len(args)
    /\ LET target == args[i + 1]
           o == DeleteOpts(flags.sync, i, Len(args))
       IN \E err \in DeleteOutcomes :
            /\ calls' = Append(calls, [op |-> "Delete", arg |-> target,
                                       opts |-> o, err |-> err])
            /\ exitErr' = DeleteExitErr(exitErr, target, err)
            /\ stdout' = DeletePrint(stdout, target, err)
            /\ log' = DeleteLog(log, target, err)
    /\ i' = i + 1
    /\ UNCHANGED <<cmd, pc, flags, args, name, labels, client, input, tw,
                   retErr, imageList, imgs, opts, platformMatcher>>

\* `return exitErr`
DeleteReturn ==
    /\ cmd = "delete" /\ pc = "loop"
    /\ i = Len(args)
    /\ pc' = "done"
    /\ retErr' = exitErr
    /\ UNCHANGED <<log, cmd, flags, args, name, labels, client, input, calls,
                   stdout, tw, exitErr, i, imageList, imgs, opts,
                   platformMatcher>>

NextDelete == DeleteNewClient \/ DeleteStep \/ DeleteReturn

SpecDelete == InitDelete /\ [][NextDelete]_vars

\* ---------------------------------------------------------------- delete: properties
DeleteDone == cmd = "delete" /\ pc = "done" /\ client = "ok"

\* indices of the Delete calls that failed with an error other than not-found
DeleteFailures ==
    {j \in 1..Len(calls) : calls[j].err # NoErr /\ calls[j].err # ErrNotFound}

\* C1: once the client is constructed, for every argument list and every
\* combination of per-target outcomes the delete command returns nil if and
\* only if no Delete call failed with an error other than not-found; a
\* not-found failure alone never makes the command fail.
C1_NotFoundIsWarning ==
    /\ DeleteDone => (retErr = NoErr <=> DeleteFailures = {})
    /\ cmd = "delete" =>
         /\ Cardinality({k \in 1..Len(log) : log[k].level = "warning"})
              = Cardinality({j \in 1..Len(calls) : calls[j].err = ErrNotFound})
         /\ Cardinality({k \in 1..Len(log) : log[k].level = "error"})
              = Cardinality(DeleteFailures)

C1_Witness ==
    /\ DeleteDone
    /\ retErr = NoErr
    /\ \E j \in 1..Len(calls) : calls[j].err = ErrNotFound
    /\ \E j \in 1..Len(calls) : calls[j].err = NoErr

\* the Delete calls that carry the synchronous-removal option
SyncCalls == {j \in 1..Len(calls) : calls[j].opts # << >>}

\* C2: a Delete call carries the synchronous-removal option if and only if
\* --sync is set and the call is the one for the last positional argument;
\* with --sync and at least one argument exactly one call (the final one)
\* carries it, without --sync none does, whatever earlier targets returned.
C2_SyncOnlyOnLast ==
    /\ cmd = "delete" =>
         \A j \in 1..Len(calls) :
            /\ calls[j].arg = args[j]
            /\ calls[j].opts \in {<< >>, <<"SynchronousDelete">>}
            /\ calls[j].opts = <<"SynchronousDelete">>
                 <=> (flags.sync /\ j = Len(args))
    /\ DeleteDone =>
         /\ (flags.sync /\ Len(args) >= 1) => SyncCalls = {Len(args)}
         /\ ~flags.sync => SyncCalls = {}

C2_Witness ==
    /\ DeleteDone
    /\ flags.sync
    /\ Len(args) >= 2
    /\ calls[1].err = ErrInternal
    /\ SyncCalls = {Len(args)}

\* the names of the targets whose Delete call succeeded, in call order
RECURSIVE SucceededTargets(_)
SucceededTargets(cs) ==
    IF cs = << >> THEN << >>
    ELSE IF Head(cs).err = NoErr
         THEN <<Head(cs).arg>> \o SucceededTargets(Tail(cs))
         ELSE SucceededTargets(Tail(cs))

Min(S) == CHOOSE x \in S : \A y \in S : x <= y

\* C3: a failure on one target does not stop the loop: every positional
\* argument gets exactly one Delete call, in argument order; the returned
\* error is the one recorded for the first target whose Delete failed with a
\* non-not-found error (later failures never overwrite it); and standard
\* output holds exactly the names of the targets whose Delete succeeded.
C3_LoopContinues ==
    /\ cmd = "delete" =>
         /\ Len(calls) = i
         /\ \A j \in 1..Len(calls) :
               calls[j].op = "Delete" /\ calls[j].arg = args[j]
         /\ stdout = SucceededTargets(calls)
    /\ DeleteDone =>
         /\ Len(calls) = Len(args)
         /\ retErr = IF DeleteFailures = {} THEN NoErr
                     ELSE LET f == Min(DeleteFailures)
                          IN Errorf("unable to delete", args[f], calls[f].err)

C3_Witness ==
    /\ DeleteDone
    /\ Len(args) = 3
    /\ calls[1].err = ErrUnavailable
    /\ calls[2].err = ErrInternal
    /\ calls[3].err = NoErr
    /\ retErr = Errorf("unable to delete", args[1], ErrUnavailable)
    /\ stdout = <<args[3]>>

\* ================================================================ check
\* the images of the store, in the order ListImages returns them
ImageOf(n) ==
    [Name |-> "img" \o ToString(n),
     Target |-> [MediaType |-> "application/vnd.oci.image.manifest.v1+json",
                 Digest |-> "sha256:" \o ToString(n)]]
AllImages == [n \in 1..MaxImages |-> ImageOf(n)]

\* the k-th descriptor an image requires; its Size is k
DescSize(k) == k

\* the elements of seq at the positions in keep, in order
RECURSIVE Select(_, _, _)
Select(seq, keep, k) ==
    IF k > Len(seq) THEN << >>
    ELSE (IF k \in keep THEN <<seq[k]>> ELSE << >>) \o Select(seq, keep, k + 1)

\* what images.Check can return: an error, or the required descriptors split
\* into present and missing, with or without the content being available
CheckResults ==
    {[err |-> ErrInternal, available |-> FALSE, required |-> << >>,
      present |-> << >>, missing |-> << >>]}
    \cup
    UNION {
      {[err |-> NoErr, available |-> a,
        required |-> [k \in 1..n |-> DescSize(k)],
        present |-> Select([k \in 1..n |-> DescSize(k)], m, 1),
        missing |-> Select([k \in 1..n |-> DescSize(k)], (1..n) \ m, 1)]
         : a \in BOOLEAN, m \in SUBSET (1..n)}
      : n \in 0..MaxDesc}

\* what image.IsUnpacked can return
UnpackedResults ==
    {[err |-> NoErr, unpacked |-> TRUE], [err |-> NoErr, unpacked |-> FALSE],
     [err |-> ErrInternal, unpacked |-> FALSE]}

RECURSIVE SumSizes(_)
SumSizes(ds) == IF ds = << >> THEN 0 ELSE Head(ds) + SumSizes(Tail(ds))

\* progress.Bytes(n).String() for sizes below one KiB
Bytes(n) == ToString(n) \o ".0 B"

InitCheck ==
    /\ cmd = "check"
    /\ pc = "newclient"
    /\ \E q \in BOOLEAN : flags = [DefaultFlags EXCEPT !.quiet = q]
    /\ args = << >>
    /\ client = "none"
    /\ calls = << >>
    /\ stdout = << >>
    /\ log = << >>
    /\ exitErr = NoErr
    /\ retErr = NoErr
    /\ i = 0
    /\ Idle

CheckNewClient ==
    /\ cmd = "check" /\ pc = "newclient"
    /\ NewClient("list")
    /\ UNCHANGED <<log, cmd, flags, args, name, labels, input, calls, stdout, tw,
                   exitErr, i, imageList, imgs, opts, platformMatcher>>

TableHeader == "REF\tTYPE\tDIGEST\tSTATUS\tSIZE\tUNPACKED\t"

\* client.ListImages, the two early returns after it, and the table header
CheckListImages ==
    /\ cmd = "check" /\ pc = "list"
    /\ \E err \in {NoErr, ErrUnavailable}, n \in 0..MaxImages :
         LET list == IF err = NoErr THEN SubSeq(AllImages, 1, n) ELSE << >>
         IN /\ calls' = Append(calls, [op |-> "ListImages", arg |-> "",
                                       err |-> err, out |-> list])
            /\ imageList' = list
            /\ IF err # NoErr
               THEN /\ retErr' = <<"failed listing images">> \o err
                    /\ pc' = "done"
                    /\ tw' = tw
               ELSE IF Len(list) = 0
               THEN /\ retErr' = exitErr
                    /\ pc' = "done"
                    /\ tw' = tw
               ELSE /\ retErr' = retErr
                    /\ pc' = "loop"
                    /\ tw' = IF ~flags.quiet THEN Append(tw, TableHeader) ELSE tw
            /\ log' = IF err = NoErr /\ Len(list) = 0
                      THEN Append(log, [level |-> "debug",
                                        msg |-> "no images found",
                                        err |-> NoErr])
                      ELSE log
    /\ UNCHANGED <<cmd, flags, args, name, labels, client, input, stdout,
                   exitErr, i, imgs, opts, platformMatcher>>

\* the status, size and complete locals of one loop iteration, from the
\* result of images.Check
CheckStatusMutant(chk) ==
    IF chk.err # NoErr
    THEN [status |-> "error", size |-> "-", complete |-> FALSE]
    ELSE LET nP == ToString(Len(chk.present))
             nR == ToString(Len(chk.required))
         IN IF Len(chk.missing) > 0
            THEN [status |-> "incomplete (" \o nP \o "/" \o nR \o ")",
                  size |-> Bytes(SumSizes(chk.present)) \o "/"
                             \o Bytes(SumSizes(chk.required)),
                  complete |-> FALSE]
            ELSE IF chk.available
            THEN [status |-> "complete (" \o nP \o "/" \o nR \o ")",
                  size |-> Bytes(SumSizes(chk.present)) \o "/"
                             \o Bytes(SumSizes(chk.required)),
                  complete |-> TRUE]
            ELSE [status |-> "unavailable (" \o nP \o "/?)",
                  size |-> Bytes(SumSizes(chk.present)) \o "/?",
                  complete |-> FALSE]
CheckStatus(chk) ==
    LET status0 == IF chk.err # NoErr THEN "error" ELSE "complete"
        complete0 == chk.err = NoErr
    IN IF status0 # "error"
       THEN LET requiredSize == SumSizes(chk.required)
                presentSize == SumSizes(chk.present)
                status1 == IF Len(chk.missing) > 0 THEN "incomplete" ELSE status0
                complete1 == IF Len(chk.missing) > 0 THEN FALSE ELSE complete0
            IN IF chk.available
               THEN [status |-> status1 \o " (" \o ToString(Len(chk.present))
                                  \o "/" \o ToString(Len(chk.required)) \o ")",
                     size |-> Bytes(presentSize) \o "/" \o Bytes(requiredSize),
                     complete |-> complete1]
               ELSE [status |-> "unavailable (" \o ToString(Len(chk.present))
                                  \o "/?)",
                     size |-> Bytes(presentSize) \o "/?",
                     complete |-> FALSE]
       ELSE [status |-> status0, size |-> "-", complete |-> complete0]

\* exitErr after the images.Check and image.IsUnpacked calls of one image
CheckExitErr(old, imgName, chkErr, unpErr) ==
    LET e1 == IF chkErr # NoErr
              THEN KeepFirst(old, Errorf("unable to check", imgName, chkErr))
              ELSE old
    IN IF unpErr # NoErr
       THEN KeepFirst(e1, Errorf("unable to check unpack for", imgName, unpErr))
       ELSE e1

\* the log after the images.Check and image.IsUnpacked calls of one image
CheckLog(lg, imgName, chkErr, unpErr) ==
    LET l1 == IF chkErr # NoErr
              THEN Append(lg, [level |-> "error",
                               msg |-> "unable to check " \o imgName,
                               err |-> chkErr])
              ELSE lg
    IN IF unpErr # NoErr
       THEN Append(l1, [level |-> "error",
                        msg |-> "unable to check unpack for " \o imgName,
                        err |-> unpErr])
       ELSE l1

\* `if complete { fmt.Println(image.Name()) }` of the quiet branch
QuietPrint(out, imgName, complete) ==
    IF complete THEN Append(out, imgName) ELSE out

\* one iteration of `for _, image := range imageList`
CheckImage ==
    /\ cmd = "check" /\ pc = "loop"
    /\ i < Len(imageList)
    /\ LET image == imageList[i + 1] IN
       \E chk \in CheckResults, unp \in UnpackedResults :
         LET row == CheckStatus(chk) IN
         /\ calls' = calls \o
               <<[op |-> "Check", arg |-> image.Name, err |-> chk.err,
                  out |-> chk],
                 [op |-> "IsUnpacked", arg |-> image.Name, err |-> unp.err,
                  out |-> unp.unpacked]>>
         /\ exitErr' = CheckExitErr(exitErr, image.Name, chk.err, unp.err)
         /\ IF ~flags.quiet
            THEN /\ tw' = Append(tw, [ref |-> image.Name,
                                      type |-> image.Target.MediaType,
                                      digest |-> image.Target.Digest,
                                      status |-> row.status,
                                      size |-> row.size,
                                      unpacked |-> unp.unpacked])
                 /\ stdout' = stdout
            ELSE /\ tw' = tw
                 /\ stdout' = QuietPrint(stdout, image.Name, row.complete)
         /\ log' = CheckLog(log, image.Name, chk.err, unp.err)
    /\ i' = i + 1
    /\ UNCHANGED <<cmd, pc, flags, args, name, labels, client, input, retErr,
                   imageList, imgs, opts, platformMatcher>>

\* `tw.Flush(); return exitErr`
CheckReturn ==
    /\ cmd = "check" /\ pc = "loop"
    /\ i = Len(imageList)
    /\ pc' = "done"
    /\ retErr' = exitErr
    /\ UNCHANGED <<log, cmd, flags, args, name, labels, client, input, calls,
                   stdout, tw, exitErr, i, imageList, imgs, opts,
                   platformMatcher>>

NextCheck == CheckNewClient \/ CheckListImages \/ CheckImage \/ CheckReturn

SpecCheck == InitCheck /\ [][NextCheck]_vars

\* ---------------------------------------------------------------- check: properties
\* the loop was reached: the client was constructed and ListImages succeeded
CheckListed ==
    /\ cmd = "check" /\ client = "ok"
    /\ Len(calls) >= 1 /\ calls[1].err = NoErr

Range(seq) == {seq[k] : k \in 1..Len(seq)}

\* the images.Check and image.IsUnpacked calls made for the j-th image
CheckCallOf(j) == calls[2 * j]
UnpackedCallOf(j) == calls[2 * j + 1]

\* the table rows below the header
TableRows == IF tw = << >> THEN << >> ELSE Tail(tw)

\* C4: with --quiet only ready image refs are printed: a name is printed only
\* if its content check succeeded, the content is available with nothing
\* missing, and IsUnpacked returned true without error.
C4_QuietPrintsOnlyReady ==
    (CheckListed /\ flags.quiet) =>
        \A j \in 1..i :
            imageList[j].Name \in Range(stdout) =>
                /\ CheckCallOf(j).err = NoErr
                /\ CheckCallOf(j).out.available
                /\ CheckCallOf(j).out.missing = << >>
                /\ UnpackedCallOf(j).err = NoErr
                /\ UnpackedCallOf(j).out = TRUE

\* the per-image calls that returned an error, as positions in the call trace
CheckFailures == {k \in 2..Len(calls) : calls[k].err # NoErr}

CheckWrapped(c) ==
    IF c.op = "Check" THEN Errorf("unable to check", c.arg, c.err)
    ELSE Errorf("unable to check unpack for", c.arg, c.err)

\* C9: once ListImages has returned the list, per-image errors never stop the
\* loop: every image is processed exactly once in list order (one table row
\* each when not quiet), IsUnpacked is queried for an image even when its
\* content check failed, and the returned error is nil if and only if no
\* content check and no IsUnpacked query failed, otherwise it is the error of
\* the first failing call in processing order.
C9_CheckLoopContinues ==
    /\ CheckListed =>
         /\ Len(calls) = 1 + 2 * i
         /\ \A j \in 1..i :
               /\ CheckCallOf(j).op = "Check"
               /\ CheckCallOf(j).arg = imageList[j].Name
               /\ UnpackedCallOf(j).op = "IsUnpacked"
               /\ UnpackedCallOf(j).arg = imageList[j].Name
         /\ IF flags.quiet THEN TableRows = << >>
            ELSE /\ Len(TableRows) = i
                 /\ \A j \in 1..i : TableRows[j].ref = imageList[j].Name
    /\ (CheckListed /\ pc = "done") =>
         /\ i = Len(imageList)
         /\ retErr = NoErr <=> CheckFailures = {}
         /\ CheckFailures # {} => retErr = CheckWrapped(calls[Min(CheckFailures)])

C9_Witness ==
    /\ CheckListed /\ pc = "done" /\ ~flags.quiet
    /\ Len(imageList) = 2
    /\ CheckCallOf(1).err = NoErr
    /\ UnpackedCallOf(1).err # NoErr
    /\ CheckCallOf(2).err # NoErr
    /\ UnpackedCallOf(2).err # NoErr
    /\ retErr = Errorf("unable to check unpack for", "img1", ErrInternal)
    /\ Len(TableRows) = 2

\* the four cases of the reported status, decided by the content check result
StatusCase(chk) ==
    IF chk.err # NoErr THEN "error"
    ELSE IF ~chk.available THEN "unavailable"
    ELSE IF Len(chk.missing) > 0 THEN "incomplete"
    ELSE "complete"

StatusText(chk) ==
    LET p == ToString(Len(chk.present))
        r == ToString(Len(chk.required))
    IN CASE StatusCase(chk) = "error" -> "error"
         [] StatusCase(chk) = "unavailable" -> "unavailable (" \o p \o "/?)"
         [] StatusCase(chk) = "incomplete" -> "incomplete (" \o p \o "/" \o r \o ")"
         [] StatusCase(chk) = "complete" -> "complete (" \o p \o "/" \o r \o ")"

\* C10: each image's reported status is "error" (size "-") if the content
\* check failed, otherwise "unavailable (<present>/?)" if the content is not
\* available (even with descriptors missing), otherwise
\* "incomplete (<present>/<required>)" if a descriptor is missing, otherwise
\* "complete (<present>/<required>)"; and with --quiet the image's name is
\* printed exactly when its status is the complete case.
C10_StatusCases ==
    CheckListed =>
        \A j \in 1..i :
            IF flags.quiet
            THEN imageList[j].Name \in Range(stdout)
                    <=> StatusCase(CheckCallOf(j).out) = "complete"
            ELSE /\ TableRows[j].status = StatusText(CheckCallOf(j).out)
                 /\ StatusCase(CheckCallOf(j).out) = "error"
                       <=> TableRows[j].size = "-"

C10_Witness ==
    /\ CheckListed /\ ~flags.quiet /\ i >= 1
    /\ CheckCallOf(1).err = NoErr
    /\ ~CheckCallOf(1).out.available
    /\ Len(CheckCallOf(1).out.missing) = 1
    /\ Len(CheckCallOf(1).out.present) = 1
    /\ TableRows[1].status = "unavailable (1/?)"

\* ================================================================ label
\* label keys a user can name: the empty key ("=v") and numbered keys
Keys == {""} \cup {"k" \o ToString(n) : n \in 1..MaxLabels}
Values == {"", "v"}

\* the label maps commands.ObjectWithLabelArgs can return
LabelMaps == UNION {[S -> Values] : S \in SUBSET Keys}

\* the orders in which `range` can visit the keys of a map
Orders(S) ==
    {o \in [1..Cardinality(S) -> S] : \A a, b \in 1..Cardinality(S) :
                                         a # b => o[a] # o[b]}

RECURSIVE Join(_, _)
\* strings.Join
Join(elems, sep) ==
    IF elems = << >> THEN ""
    ELSE IF Len(elems) = 1 THEN elems[1]
    ELSE elems[1] \o sep \o Join(Tail(elems), sep)

InitLabel ==
    /\ cmd = "label"
    /\ pc = "newclient"
    /\ \E r \in BOOLEAN : flags = [DefaultFlags EXCEPT !.replaceAll = r]
    /\ args = << >>
    /\ name \in {"", "img1"}
    /\ labels \in LabelMaps
    /\ client = "none"
    /\ calls = << >>
    /\ stdout = << >>
    /\ log = << >>
    /\ exitErr = NoErr
    /\ retErr = NoErr
    /\ i = 0
    /\ input = "none"
    /\ tw = << >>
    /\ imageList = << >>
    /\ imgs = << >>
    /\ opts = << >>
    /\ platformMatcher = "nil"

\* commands.NewClient, then `if name == "" { return errors.New(...) }`
LabelNewClient ==
    /\ cmd = "label" /\ pc = "newclient"
    /\ \E ok \in BOOLEAN :
         /\ client' = IF ok THEN "ok" ELSE "failed"
         /\ IF ~ok
            THEN pc' = "done" /\ retErr' = ErrClient
            ELSE IF name = ""
            THEN pc' = "done" /\ retErr' = <<"please specify an image">>
            ELSE pc' = "update" /\ retErr' = retErr
    /\ UNCHANGED <<log, cmd, flags, args, name, labels, input, calls, stdout,
                   tw, exitErr, i, imageList, imgs, opts, platformMatcher>>

\* the field path appended for key k
FieldPathMutant(replaceAll, k) ==
    IF replaceAll THEN Join(<<"labels", k>>, ".") ELSE "labels"
FieldPath(replaceAll, k) ==
    IF replaceAll THEN "labels" ELSE Join(<<"labels", k>>, ".")

\* `for k := range labels { fieldpaths = append(fieldpaths, ...) }`, the keys
\* visited in the order `order`
FieldPaths(replaceAll, order) ==
    [k \in 1..Len(order) |-> FieldPath(replaceAll, order[k])]

\* labels an image may already carry in the store
StoredLabels == {<< >>, [k \in {"old"} |-> "x"]}

\* the Labels of the image the image service returns from Update
UpdatedLabels(stored, new, paths) ==
    IF paths = << >> \/ "labels" \in {paths[k] : k \in 1..Len(paths)}
    THEN new
    ELSE [k \in (DOMAIN stored) \cup (DOMAIN new) |->
             IF k \in DOMAIN new THEN new[k] ELSE stored[k]]

\* is.Update with the field paths, then the printing of the updated labels
LabelUpdate ==
    /\ cmd = "label" /\ pc = "update"
    /\ \E order \in Orders(DOMAIN labels), err \in {NoErr, ErrNotFound},
          stored \in StoredLabels :
         LET fieldpaths == FieldPaths(flags.replaceAll, order)
             image == [Name |-> name, Labels |-> labels]
             updated == UpdatedLabels(stored, labels, fieldpaths)
         IN /\ calls' = Append(calls, [op |-> "Update", arg |-> image,
                                       opts |-> fieldpaths, err |-> err])
            /\ retErr' = err
            /\ IF err # NoErr THEN stdout' = stdout
               ELSE \E shown \in Orders(DOMAIN updated) :
                      stdout' = Append(stdout,
                          Join([k \in 1..Len(shown) |->
                                  shown[k] \o "=" \o updated[shown[k]]], ","))
    /\ pc' = "done"
    /\ UNCHANGED <<log, cmd, flags, args, name, labels, client, input, tw,
                   exitErr, i, imageList, imgs, opts, platformMatcher>>

NextLabel == LabelNewClient \/ LabelUpdate

SpecLabel == InitLabel /\ [][NextLabel]_vars

\* ---------------------------------------------------------------- label: properties
UpdateCalls == {k \in 1..Len(calls) : calls[k].op = "Update"}

\* C5: with a non-empty image name and at least one key=value argument, once
\* the client is constructed exactly one Update call is made, carrying the
\* supplied name and label map; without --replace-all the set of its field
\* paths is exactly {"labels." + k : k a supplied key}, and with
\* --replace-all every field path is exactly "labels".
C5_LabelFieldPaths ==
    (cmd = "label" /\ pc = "done" /\ client = "ok"
        /\ name # "" /\ DOMAIN labels # {}) =>
        /\ Len(calls) = 1
        /\ calls[1].op = "Update"
        /\ calls[1].arg = [Name |-> name, Labels |-> labels]
        /\ calls[1].opts # << >>
        /\ IF flags.replaceAll
           THEN Range(calls[1].opts) = {"labels"}
           ELSE Range(calls[1].opts) = {"labels." \o k : k \in DOMAIN labels}

C5_Witness ==
    /\ cmd = "label" /\ pc = "done" /\ client = "ok"
    /\ ~flags.replaceAll
    /\ DOMAIN labels = {"k1", "k2"}
    /\ Len(calls) = 1
    /\ Range(calls[1].opts) = {"labels.k1", "labels.k2"}

\* strings.HasPrefix
HasPrefix(str, prefix) ==
    Len(str) >= Len(prefix) /\ SubSeq(str, 1, Len(prefix)) = prefix

\* C6: every Update call of the label command is a partial update restricted
\* to the labels field: its list of field paths is non-empty and each path is
\* "labels" or begins with "labels.", for any name and any number of
\* key=value arguments, zero included.
C6_UpdateAlwaysPartial ==
    cmd = "label" =>
        \A c \in UpdateCalls :
            /\ calls[c].opts # << >>
            /\ \A fp \in Range(calls[c].opts) :
                  fp = "labels" \/ HasPrefix(fp, "labels.")

\* ================================================================ import
BaseNames == {"", "foo/bar"}
IndexNames == {"", "idx"}
Platforms == {"", "linux/amd64", "bogus//"}
Inputs == {<< >>, <<"-">>, <<"images.tar">>}

\* time.Now().Format("2006-01-02")
Today == "2024-05-17"

ErrSkipDigest == <<"--skip-digest-for-named must be specified with --digests option">>
ErrPlatform == <<"invalid platform">>
ErrOpen == <<"open failed">>
ErrImport == <<"import failed">>
ErrClose == <<"close failed">>
ErrCrypto == <<"decrypt config failed">>
ErrUnpack == <<"unpack failed">>

\* platforms.Parse succeeds
PlatformParses(platform) == platform = "linux/amd64"

Opt(optName, arg) == [opt |-> optName, arg |-> arg]

\* the import prefix: --base-name, or a generated name
Prefix(f) == IF f.baseName = "" THEN "import-" \o Today ELSE f.baseName

\* opts after the --base-name and --digests blocks
OptsBeforeSkip(f) ==
    <<Opt("WithImageRefTranslator",
          IF f.baseName = "" THEN "AddRefPrefix(" \o Prefix(f) \o ")"
          ELSE "FilterRefPrefix(" \o Prefix(f) \o ")")>>
    \o (IF f.digests
        THEN <<Opt("WithDigestRef", "DigestTranslator(" \o Prefix(f) \o ")")>>
        ELSE << >>)

\* `if context.Bool("skip-digest-for-named") { if !context.Bool("digests") {`
SkipDigestErrorMutant(f) == FALSE
SkipDigestError(f) == f.skipDigestForNamed /\ ~f.digests

\* opts after the --skip-digest-for-named, --index-name and --compress-blobs
\* blocks
OptsBeforePlatform(f) ==
    OptsBeforeSkip(f)
    \o (IF f.skipDigestForNamed
        THEN <<Opt("WithSkipDigestRef", "name != \"\"")>> ELSE << >>)
    \o (IF f.indexName # ""
        THEN <<Opt("WithIndexName", f.indexName)>> ELSE << >>)
    \o (IF f.compressBlobs
        THEN <<Opt("WithImportCompression", "")>> ELSE << >>)

\* the complete option list
AllOpts(f) ==
    OptsBeforePlatform(f)
    \o (IF f.platform # ""
        THEN <<Opt("WithImportPlatform", "OnlyStrict(" \o f.platform \o ")")>>
        ELSE << >>)
    \o <<Opt("WithAllPlatforms", ToString(f.allPlatforms))>>

InitImport ==
    /\ cmd = "import"
    /\ pc = "flags"
    /\ \E bn \in BaseNames, dg \in BOOLEAN, sk \in BOOLEAN, ix \in IndexNames,
          cb \in BOOLEAN, pl \in Platforms, ap \in BOOLEAN, nu \in BOOLEAN :
         flags = [DefaultFlags EXCEPT !.baseName = bn, !.digests = dg,
                    !.skipDigestForNamed = sk, !.indexName = ix,
                    !.compressBlobs = cb, !.platform = pl,
                    !.allPlatforms = ap, !.noUnpack = nu]
    /\ args \in Inputs
    /\ client = "none"
    /\ calls = << >>
    /\ stdout = << >>
    /\ log = << >>
    /\ exitErr = NoErr
    /\ retErr = NoErr
    /\ i = 0
    /\ Idle

\* the flag handling before the client is constructed
ImportFlags ==
    /\ cmd = "import" /\ pc = "flags"
    /\ IF SkipDigestError(flags)
       THEN /\ opts' = OptsBeforeSkip(flags)
            /\ platformMatcher' = platformMatcher
            /\ retErr' = ErrSkipDigest
            /\ pc' = "done"
       ELSE IF flags.platform # "" /\ ~PlatformParses(flags.platform)
       THEN /\ opts' = OptsBeforePlatform(flags)
            /\ platformMatcher' = platformMatcher
            /\ retErr' = ErrPlatform
            /\ pc' = "done"
       ELSE /\ opts' = AllOpts(flags)
            /\ platformMatcher' =
                 IF flags.platform # ""
                 THEN "OnlyStrict(" \o flags.platform \o ")" ELSE "nil"
            /\ retErr' = retErr
            /\ pc' = "newclient"
    /\ UNCHANGED <<log, cmd, flags, args, name, labels, client, input, calls,
                   stdout, tw, exitErr, i, imageList, imgs>>

ImportNewClient ==
    /\ cmd = "import" /\ pc = "newclient"
    /\ NewClient("open")
    /\ UNCHANGED <<log, cmd, flags, args, name, labels, input, calls, stdout,
                   tw, exitErr, i, imageList, imgs, opts, platformMatcher>>

\* context.Args().First()
First(as) == IF as = << >> THEN "" ELSE as[1]

\* `if in == "-" { r = os.Stdin } else { r, err = os.Open(in) ... }`
ImportOpen ==
    /\ cmd = "import" /\ pc = "open"
    /\ LET in == First(args) IN
       IF in = "-"
       THEN input' = "stdin" /\ pc' = "import" /\ retErr' = retErr
       ELSE \E ok \in BOOLEAN :
              IF ok /\ in # ""
              THEN input' = "file" /\ pc' = "import" /\ retErr' = retErr
              ELSE input' = input /\ pc' = "done" /\ retErr' = ErrOpen
    /\ UNCHANGED <<log, cmd, flags, args, name, labels, client, calls, stdout,
                   tw, exitErr, i, imageList, imgs, opts, platformMatcher>>

\* `if !context.Bool("no-unpack") {`
ShouldUnpack(f) == ~f.noUnpack

\* client.Import, r.Close, and the returns that follow them
ImportCall ==
    /\ cmd = "import" /\ pc = "import"
    /\ \E err \in {NoErr, ErrImport}, closeErr \in {NoErr, ErrClose},
          n \in 0..MaxImages :
         LET got == IF err = NoErr THEN SubSeq(AllImages, 1, n) ELSE << >>
         IN /\ calls' = calls \o
                  <<[op |-> "Import", arg |-> First(args), opts |-> opts,
                     err |-> err],
                    [op |-> "Close", arg |-> First(args), opts |-> << >>,
                     err |-> closeErr]>>
            /\ imgs' = got
            /\ IF err # NoErr THEN pc' = "done" /\ retErr' = err
               ELSE IF closeErr # NoErr THEN pc' = "done" /\ retErr' = closeErr
               ELSE IF ShouldUnpack(flags) THEN pc' = "crypto" /\ retErr' = retErr
               ELSE pc' = "done" /\ retErr' = NoErr
    /\ input' = "closed"
    /\ UNCHANGED <<log, cmd, flags, args, name, labels, client, stdout, tw,
                   exitErr, i, imageList, opts, platformMatcher>>

\* parsehelpers.CreateDecryptCryptoConfig and the "unpacking %d images" entry
ImportCryptoConfig ==
    /\ cmd = "import" /\ pc = "crypto"
    /\ \E err \in {NoErr, ErrCrypto} :
         IF err # NoErr
         THEN pc' = "done" /\ retErr' = err /\ log' = log
         ELSE /\ pc' = "unpack"
              /\ retErr' = retErr
              /\ log' = Append(log, [level |-> "debug",
                                     msg |-> "unpacking " \o ToString(Len(imgs))
                                               \o " images",
                                     err |-> NoErr])
    /\ UNCHANGED <<cmd, flags, args, name, labels, client, input, calls,
                   stdout, tw, exitErr, i, imageList, imgs, opts,
                   platformMatcher>>

\* where the handler goes after image.Unpack returned err
AfterUnpackMutant(err) == "unpack"
AfterUnpack(err) == IF err # NoErr THEN "done" ELSE "unpack"

\* one iteration of `for _, img := range imgs`
ImportUnpack ==
    /\ cmd = "import" /\ pc = "unpack"
    /\ i < Len(imgs)
    /\ LET img == imgs[i + 1]
           matcher == IF platformMatcher = "nil" THEN "Default"
                      ELSE platformMatcher
           line == "unpacking " \o img.Name \o " (" \o img.Target.Digest
                     \o ")..."
       IN \E err \in {NoErr, ErrUnpack} :
            /\ platformMatcher' = matcher
            /\ calls' = Append(calls,
                  [op |-> "Unpack", arg |-> img.Name,
                   opts |-> <<Opt("WithUnpackConfigApplyOpts",
                                  "WithDecryptedUnpack"),
                              Opt("platform", matcher)>>,
                   err |-> err])
            /\ stdout' = IF err # NoErr THEN Append(stdout, line)
                         ELSE Append(stdout, line \o "done")
            /\ retErr' = IF err # NoErr THEN err ELSE retErr
            /\ pc' = AfterUnpack(err)
    /\ i' = i + 1
    /\ UNCHANGED <<log, cmd, flags, args, name, labels, client, input, tw,
                   exitErr, imageList, imgs, opts>>

\* `return nil` after the loop
ImportReturn ==
    /\ cmd = "import" /\ pc = "unpack"
    /\ i = Len(imgs)
    /\ pc' = "done"
    /\ retErr' = NoErr
    /\ UNCHANGED <<log, cmd, flags, args, name, labels, client, input, calls,
                   stdout, tw, exitErr, i, imageList, imgs, opts,
                   platformMatcher>>

NextImport ==
    \/ ImportFlags \/ ImportNewClient \/ ImportOpen \/ ImportCall
    \/ ImportCryptoConfig \/ ImportUnpack \/ ImportReturn

SpecImport == InitImport /\ [][NextImport]_vars

\* ---------------------------------------------------------------- import: properties
OptNames(os) == {os[k].opt : k \in 1..Len(os)}

\* C7: --skip-digest-for-named must come with --digests: when it is set and
\* --digests is not, the command returns an error and no client is
\* constructed, no input is opened, no Import call is made and no image is
\* unpacked; the skip-digest import option is added only when both flags are
\* set.
C7_SkipDigestNeedsDigests ==
    cmd = "import" =>
        /\ (flags.skipDigestForNamed /\ ~flags.digests) =>
              /\ pc \in {"flags", "done"}
              /\ pc = "done" => retErr = ErrSkipDigest
              /\ client = "none"
              /\ input = "none"
              /\ calls = << >>
              /\ stdout = << >>
        /\ "WithSkipDigestRef" \in OptNames(opts) =>
              flags.skipDigestForNamed /\ flags.digests
        /\ \A k \in 1..Len(calls) :
              "WithSkipDigestRef" \in OptNames(calls[k].opts) =>
                  flags.skipDigestForNamed /\ flags.digests

C7_Witness ==
    /\ cmd = "import" /\ pc = "done"
    /\ flags.skipDigestForNamed /\ ~flags.digests
    /\ retErr = ErrSkipDigest
    /\ client = "none"

UnpackCalls == {k \in 1..Len(calls) : calls[k].op = "Unpack"}

\* C8: Unpack is called only after Import returned successfully and the input
\* was closed without error, and only when --no-unpack is not set; the
\* imported images are then unpacked one at a time in the order returned,
\* each at most once, and the first Unpack failure is returned at once, so no
\* later image is unpacked.  With --no-unpack, or a failed Import or close,
\* Unpack is never called.
C8_UnpackAfterImport ==
    cmd = "import" =>
        /\ UnpackCalls # {} =>
              /\ ~flags.noUnpack
              /\ calls[1].op = "Import" /\ calls[1].err = NoErr
              /\ calls[2].op = "Close" /\ calls[2].err = NoErr
              /\ input = "closed"
              /\ UnpackCalls = 3..Len(calls)
        /\ Cardinality(UnpackCalls) <= Len(imgs)
        /\ \A k \in UnpackCalls : calls[k].arg = imgs[k - 2].Name
        /\ \A k \in UnpackCalls :
              calls[k].err # NoErr =>
                  /\ k = Len(calls)
                  /\ pc = "done"
                  /\ retErr = calls[k].err
        /\ (pc = "done" /\ retErr = NoErr /\ ~flags.noUnpack) =>
              Cardinality(UnpackCalls) = Len(imgs)

C8_Witness ==
    /\ cmd = "import" /\ pc = "done"
    /\ Len(imgs) = 2
    /\ Len(calls) = 4
    /\ calls[3].op = "Unpack" /\ calls[3].err = NoErr
    /\ calls[4].op = "Unpack" /\ calls[4].err = NoErr
    /\ retErr = NoErr

====
